---------------------------- MODULE Spec2Model ----------------------------
(* Quiz session, question assembly and performance analysis of SAT-Prep.   *)
(*                                                                         *)
(* QuizScreen is a React function component: its state is the set of       *)
(* useState cells, an event handler reads the cells of the render it was   *)
(* created in (its closure) and queues updates, and the effect of a        *)
(* commit is a passive effect: it runs after the commit, at once or        *)
(* later, depending on the React build and the kind of event.  An event    *)
(* dispatched between a commit and its effect is handled by the committed  *)
(* render; its updates are queued first, the pending effect runs before    *)
(* the next render and its updates are queued behind them.  One action is  *)
(* one event: the handler, the pending effect, the commit of the updates   *)
(* and, when it is not left pending, the effect the commit triggers.       *)
(* Unprimed variables are the handler's closure.                           *)
EXTENDS Integers, Sequences, FiniteSets, TLC

(***************************************************************************)
(* Bounds of the model                                                     *)
(***************************************************************************)
MaxQuestions == 3       \* longest question list a quiz is started with
MaxTime == 1            \* last value of the clock (Date.now())

MaxRecords == 3         \* longest list of performance records analysed
MaxTotal == 10          \* largest totalQuestions of a performance record
MaxCount == 2           \* largest config.count of a getQuestions call
MaxBatch == 1           \* most questions in one generation response
MaxPool == 2            \* no new call once the pool holds this many
MaxUpdatePool == 3      \* largest pool an update of the bank leaves
MaxCalls == 3          \* updateProgress calls that change a record

(***************************************************************************)
(* Program constants                                                       *)
(***************************************************************************)
NumOptions == 4         \* every question has 4 answer options
NoAnswer == -1          \* selectedAnswer === null

MathCategories == {"Algebra", "Geometry", "Trigonometry", "Data Analysis"}
VerbalCategories ==
  {"Reading Comprehension", "Vocabulary", "Grammar", "Essay Writing"}
QuestionCategory == MathCategories \cup VerbalCategories

VARIABLES
  now,                  \* Date.now()
  params,               \* route.params of the Quiz screen
  screen,               \* "Quiz", "Results" or "Back" (navigation)
  questions,            \* useState: the session's question list
  currentQuestionIndex, \* useState
  selectedAnswer,       \* useState: an option index or NoAnswer
  isAnswerSubmitted,    \* useState
  isLoading,            \* useState
  quizStartTime,        \* useState
  questionStartTime,    \* useState
  timePerQuestion,      \* useState: recorded elapsed times
  results,              \* useState: [correct, incorrect, skipped]
  effectPending,        \* a commit's reset effect has not run yet
  navResults,           \* params handed to the Results screen, or NoResult
  lastEvent,            \* the event handled by the last step
  outcomes,             \* history: the tallies made, each with its question
  performances,         \* UserPerformance[] given to the analysis
  performanceByCategory,\* result of analyzePerformance (insertion order)
  recommendations,      \* result of generateRecommendations
  prediction,           \* result of predictSATScore
  analysisStep,         \* "input", "analyzed", "recommended", "predicted"
  aiGeneratedQuestions, \* QuestionService: pool of generated questions
  call,                 \* the getQuestions call in progress
  returned,             \* the list a finished getQuestions call resolved with
  update,               \* the updateQuestionBank call in progress
  user,                 \* UserProvider useState: the user record or NoUser
  initialUserState,     \* the module's initial user object
  calls,                \* history: updateProgress calls since the login
  progressCall,         \* history: did the last updateProgress find a user
  resultsScreen,        \* the cells of the Results screen, or NoScreen
  userLoad              \* the read of the stored user begun at the mount

screenVars ==
  <<params, screen, questions, currentQuestionIndex, selectedAnswer,
    isAnswerSubmitted, isLoading, quizStartTime, questionStartTime,
    timePerQuestion, results, effectPending, navResults, outcomes>>

quizVars == <<screenVars, lastEvent>>

analysisVars ==
  <<performances, performanceByCategory, recommendations, prediction,
    analysisStep>>

bankVars == <<aiGeneratedQuestions, call, returned, update>>

progressCells == <<user, initialUserState, calls, progressCall>>

userVars == <<progressCells, resultsScreen, userLoad>>

vars == <<now, quizVars, analysisVars, bankVars, userVars>>

NoResult == [none |-> TRUE]

(***************************************************************************)
(* Numbers: a JavaScript quotient n / d of two non-negative integers is    *)
(* kept as the pair; 0 / 0 is NaN and n / 0 with n > 0 is Infinity.         *)
(***************************************************************************)
Quot(n, d) == [n |-> n, d |-> d]
IsNaN(x) == x.d = 0 /\ x.n = 0
\* x < y of JavaScript: false as soon as one side is NaN
NumLess(x, y) == ~IsNaN(x) /\ ~IsNaN(y) /\ x.n * y.d < y.n * x.d

Min(a, b) == IF a < b THEN a ELSE b

(***************************************************************************)
(* Doubles: a finite non-negative double is m * 2^e with m below 2^53; m is *)
(* kept as its digits to the base 2^15, the least significant first.       *)
(***************************************************************************)
Base == 32768

RECURSIVE DigitsOf(_)
DigitsOf(n) == IF n = 0 THEN <<>> ELSE <<n % Base>> \o DigitsOf(n \div Base)

RECURSIVE NatOf(_)
NatOf(ds) == IF ds = <<>> THEN 0 ELSE Head(ds) + Base * NatOf(Tail(ds))

RECURSIVE Trim(_)
\* ds without its leading zeros
Trim(ds) ==
  IF ds # <<>> /\ ds[Len(ds)] = 0
    THEN Trim(SubSeq(ds, 1, Len(ds) - 1))
    ELSE ds

Zeros(k) == [i \in 1..k |-> 0]

RECURSIVE BitLength(_)
\* the number of binary digits of the integer n
BitLength(n) == IF n = 0 THEN 0 ELSE 1 + BitLength(n \div 2)

\* the number of binary digits of ds, which has no leading zero
BitsIn(ds) ==
  IF ds = <<>> THEN 0 ELSE 15 * (Len(ds) - 1) + BitLength(ds[Len(ds)])

RECURSIVE MulDigits(_, _, _)
\* the digits of ds * k + carry
MulDigits(ds, k, carry) ==
  IF ds = <<>> THEN DigitsOf(carry)
  ELSE LET v == Head(ds) * k + carry
       IN  <<v % Base>> \o MulDigits(Tail(ds), k, v \div Base)

RECURSIVE AddDigits(_, _, _)
\* the digits of a + b + carry
AddDigits(a, b, carry) ==
  IF a = <<>> /\ b = <<>> THEN DigitsOf(carry)
  ELSE LET x == IF a = <<>> THEN 0 ELSE Head(a)
           y == IF b = <<>> THEN 0 ELSE Head(b)
           v == x + y + carry
       IN  <<v % Base>> \o AddDigits(IF a = <<>> THEN a ELSE Tail(a),
                                     IF b = <<>> THEN b ELSE Tail(b),
                                     v \div Base)

RECURSIVE DivDigits(_, _, _)
\* long division of ds by d < 2^15 from the most significant digit on, rem
\* the remainder carried in: the quotient q and the remainder r
DivDigits(ds, d, rem) ==
  IF ds = <<>> THEN [q |-> <<>>, r |-> rem]
  ELSE LET v == rem * Base + ds[Len(ds)]
           rest == DivDigits(SubSeq(ds, 1, Len(ds) - 1), d, v % d)
       IN  [q |-> Append(rest.q, v \div d), r |-> rest.r]

\* ds * 2^s
ShiftLeft(ds, s) == Zeros(s \div 15) \o MulDigits(ds, 2 ^ (s % 15), 0)

\* ds / 2^s: the quotient q and whether the remainder is positive
ShiftRight(ds, s) ==
  LET dropped == SubSeq(ds, 1, Min(s \div 15, Len(ds)))
      division == DivDigits(SubSeq(ds, s \div 15 + 1, Len(ds)),
                            2 ^ (s % 15), 0)
  IN  [ q |-> Trim(division.q),
        rest |-> division.r # 0 \/ \E i \in 1..Len(dropped) : dropped[i] # 0 ]

\* the double nearest to ds * 2^e (plus a positive rest below the last
\* digit if sticky), ties to the even mantissa
RoundToDouble(ds, e, sticky) ==
  LET N == Trim(ds)
      shift == BitsIn(N) - 53
  IN  IF shift <= 0 THEN [m |-> N, e |-> e]
      ELSE LET upper == ShiftRight(N, shift - 1)
               half == upper.q[1] % 2 = 1
               kept == ShiftRight(upper.q, 1).q
               rest == sticky \/ upper.rest
               up == half /\ (rest \/ kept[1] % 2 = 1)
           IN  [ m |-> IF up THEN AddDigits(kept, <<1>>, 0) ELSE kept,
                 e |-> e + shift ]

DoubleOfNat(n) == [m |-> DigitsOf(n), e |-> 0]

\* x / d for a double x and an integer d, 0 < d < 2^15
DoubleDiv(x, d) ==
  LET division == DivDigits(Zeros(5) \o x.m, d, 0)
  IN  RoundToDouble(division.q, x.e - 75, division.r # 0)

\* x * k for a double x and an integer k, 0 <= k < 2^15
DoubleMul(x, k) == RoundToDouble(MulDigits(x.m, k, 0), x.e, FALSE)

\* a + x for an integer a >= 0 and a double x
DoubleAddNat(a, x) ==
  IF x.e <= 0
    THEN RoundToDouble(AddDigits(ShiftLeft(DigitsOf(a), 0 - x.e), x.m, 0),
                       x.e, FALSE)
    ELSE RoundToDouble(AddDigits(DigitsOf(a), ShiftLeft(x.m, x.e), 0), 0,
                       FALSE)

\* Math.round(x) of a double x: floor(x + 1/2), computed exactly
DoubleRound(x) ==
  IF x.e >= 0 THEN NatOf(ShiftLeft(x.m, x.e))
  ELSE LET s == 0 - x.e
           sum == AddDigits(x.m, ShiftLeft(<<1>>, s - 1), 0)
       IN  NatOf(ShiftRight(sum, s).q)

\* n / d is an integer plus one half
IsHalfway(n, d) == (2 * n) % (2 * d) = d

\* Math.round(x * k) for the double x = r.n / r.d, finite and not
\* negative.  The double product lies on the same side of every integer
\* plus one half as the exact n * k / d, unless the exact value is such a
\* number itself: then the roundings of the division and of the product
\* decide.
MathRoundFloor(r, k) == (r.n * k) \div r.d
MathRound(r, k) ==
  IF IsHalfway(r.n * k, r.d)
    THEN DoubleRound(DoubleMul(DoubleDiv(DoubleOfNat(r.n), r.d), k))
    ELSE (2 * r.n * k + r.d) \div (2 * r.d)

RECURSIVE SumSeq(_)
SumSeq(s) == IF s = <<>> THEN 0 ELSE Head(s) + SumSeq(Tail(s))

RECURSIVE FilterIncorrect(_, _, _)
\* questions.filter((_, index) => ...) of finishQuiz over the questions qs
\* from the 0-based index on, with the results r of the handler's render
FilterIncorrect(qs, index, r) ==
  IF qs = <<>> THEN <<>>
  ELSE LET result == index < r.correct + r.incorrect + r.skipped
           questionResult == index < r.correct
           kept == IF ~result THEN FALSE ELSE ~questionResult
       IN  (IF kept THEN <<Head(qs)>> ELSE <<>>)
             \o FilterIncorrect(Tail(qs), index + 1, r)

(***************************************************************************)
(* UserContext: the user record, the read of the stored record at the     *)
(* mount, login and logout, and the updates of the record                 *)
(***************************************************************************)
NoUser == [none |-> TRUE]
NoScreen == [none |-> TRUE]
NoProgressCall == [none |-> TRUE]

\* user.progress of a record that login built: the progress object of
\* initialUserState itself, not a copy of it
SharedProgress == [shared |-> TRUE]

InitialUserState ==
  [ id |-> "", name |-> "", email |-> "",
    progress |-> [ mathScore |-> 0, verbalScore |-> 0,
                   completedQuizzes |-> 0, totalCorrect |-> 0,
                   totalAttempted |-> 0 ],
    weakAreas |-> <<>>, strengths |-> <<>> ]

NoCalls == [ n |-> 0, correct |-> 0, attempted |-> 0 ]

Emails == {"a@sat.test", "b@sat.test"}

\* the progress object of the logged-in user
UserProgress ==
  IF user.progress = SharedProgress
    THEN initialUserState.progress
    ELSE user.progress

\* a score that is NaN or Infinity; every other score is an integer >= 0
NaNScore == -1
InfinityScore == -2

\* Math.round((score * completedQuizzes + (correct / total) * 100) /
\* (completedQuizzes + 1)), the running average updateProgress stores.
\* The double lies on the same side of every integer plus one half as the
\* exact value, unless the exact value is such a number itself: then the
\* roundings of the four operations decide.
NewScore(score, completedQuizzes, correct, total) ==
  LET rate == Quot(correct, total)
      sum == score * completedQuizzes * total + correct * 100
      divisor == total * (completedQuizzes + 1)
  IN  IF score = NaNScore \/ IsNaN(rate) THEN NaNScore
      ELSE IF score = InfinityScore /\ completedQuizzes = 0 THEN NaNScore
      ELSE IF score = InfinityScore \/ total = 0 THEN InfinityScore
      ELSE IF IsHalfway(sum, divisor)
        THEN DoubleRound(
               DoubleDiv(
                 DoubleAddNat(score * completedQuizzes,
                              DoubleMul(DoubleDiv(DoubleOfNat(correct), total),
                                        100)),
                 completedQuizzes + 1))
      ELSE (2 * sum + divisor) \div (2 * divisor)

\* the progress object after the assignments of updateProgress
updateProgressOf(progress, section, correct, total) ==
  [ mathScore |->
      IF section = "math"
        THEN NewScore(progress.mathScore, progress.completedQuizzes,
                      correct, total)
        ELSE progress.mathScore,
    verbalScore |->
      IF section = "math"
        THEN progress.verbalScore
        ELSE NewScore(progress.verbalScore, progress.completedQuizzes,
                      correct, total),
    completedQuizzes |-> progress.completedQuizzes + 1,
    totalCorrect |-> progress.totalCorrect + correct,
    totalAttempted |-> progress.totalAttempted + total ]

\* what AsyncStorage can hold under 'user' when the provider is mounted:
\* nothing, or the record of a user with one recorded quiz
StoredUsers ==
  { NoUser,
    [ id |-> "1", name |-> "Test User", email |-> "a@sat.test",
      progress |-> updateProgressOf(InitialUserState.progress, "math", 1, 1),
      weakAreas |-> <<>>, strengths |-> <<>> ] }

\* the provider when a screen is constructed on a first launch: no user,
\* the read of the stored record has resolved with nothing
UserIdle ==
  /\ user = NoUser
  /\ initialUserState = InitialUserState
  /\ calls = NoCalls
  /\ progressCall = NoProgressCall
  /\ resultsScreen = NoScreen
  /\ userLoad = [pending |-> FALSE, userData |-> NoUser]

\* the provider after its construction, with or without a stored record
UserInit ==
  /\ user = NoUser
  /\ initialUserState = InitialUserState
  /\ calls = NoCalls
  /\ progressCall = NoProgressCall
  /\ resultsScreen = NoScreen
  /\ \E userData \in StoredUsers :
       userLoad = [pending |-> TRUE, userData |-> userData]

\* the provider when the quiz screen is constructed: its read has resolved
\* and found nothing or a stored record, or login has been called
UserAtQuiz ==
  /\ initialUserState = InitialUserState
  /\ progressCall = NoProgressCall
  /\ resultsScreen = NoScreen
  /\ \/ /\ user = NoUser
        /\ calls = NoCalls
        /\ userLoad = [pending |-> FALSE, userData |-> NoUser]
     \/ /\ user = [ id |-> "1", name |-> "Test User",
                    email |-> "a@sat.test", progress |-> SharedProgress,
                    weakAreas |-> <<>>, strengths |-> <<>> ]
        /\ calls = NoCalls
        /\ userLoad = [pending |-> FALSE, userData |-> NoUser]
     \/ \E userData \in StoredUsers \ {NoUser} :
          /\ user = userData
          /\ calls = [ n |-> userData.progress.completedQuizzes,
                       correct |-> userData.progress.totalCorrect,
                       attempted |-> userData.progress.totalAttempted ]
          /\ userLoad = [pending |-> FALSE, userData |-> userData]

\* the provider has rendered after a setter changed its state: the
\* context gets a new setWeakAreas, a dependency of the analysis effect of
\* the Results screen, and a mounted Results screen clears its timer and
\* sets it again
Rendered(rs) == IF rs = NoScreen THEN rs ELSE [rs EXCEPT !.timer = TRUE]

\* loadUser: the read of the mount effect resolves; a stored record is
\* parsed into a record with a progress object of its own.  The history
\* takes over the calls the stored progress stands for.  With or without
\* a record, setIsLoading(false) in the finally block renders the
\* provider.
loadUser ==
  /\ lastEvent' = "loadUser"
  /\ userLoad.pending
  /\ userLoad' = [userLoad EXCEPT !.pending = FALSE]
  /\ IF userLoad.userData # NoUser
       THEN /\ user' = userLoad.userData
            /\ calls' =
                 [ n |-> userLoad.userData.progress.completedQuizzes,
                   correct |-> userLoad.userData.progress.totalCorrect,
                   attempted |-> userLoad.userData.progress.totalAttempted ]
       ELSE UNCHANGED <<user, calls>>
  /\ resultsScreen' = Rendered(resultsScreen)
  /\ UNCHANGED <<now, screenVars, analysisVars, bankVars, initialUserState,
                 progressCall>>

\* mockUser of login: {...initialUserState, id: '1', name: 'Test User',
\* email}
mockUser(email) ==
  [ id |-> "1", name |-> "Test User", email |-> email,
    progress |-> SharedProgress,
    weakAreas |-> initialUserState.weakAreas,
    strengths |-> initialUserState.strengths ]

\* login: setUser(mockUser), whoever is logged in
login ==
  /\ lastEvent' = "login"
  /\ \E email \in Emails : user' = mockUser(email)
  /\ calls' = NoCalls
  /\ resultsScreen' = Rendered(resultsScreen)
  /\ UNCHANGED <<now, screenVars, analysisVars, bankVars, initialUserState,
                 progressCall, userLoad>>

\* logout: once the stored record is removed, setUser(null); if the
\* removal fails the user stays
logout ==
  /\ lastEvent' = "logout"
  /\ \E removed \in BOOLEAN :
       /\ user' = IF removed THEN NoUser ELSE user
       /\ resultsScreen' = IF removed /\ user # NoUser
                             THEN Rendered(resultsScreen)
                             ELSE resultsScreen
  /\ UNCHANGED <<now, screenVars, analysisVars, bankVars, initialUserState,
                 calls, progressCall, userLoad>>

\* updateProgress(section, correct, total): without a user the call
\* returns at once; with one, newUser = {...user} has the progress object
\* of user, which the assignments change in place.  At most MaxCalls
\* quizzes are recorded.
updateProgressCall(section, correct, total) ==
  /\ progressCall' = [ user |-> user # NoUser ]
  /\ IF user = NoUser
       THEN UNCHANGED <<user, initialUserState, calls>>
       ELSE /\ UserProgress.completedQuizzes < MaxCalls
            /\ IF user.progress = SharedProgress
                 THEN /\ initialUserState' =
                           [initialUserState EXCEPT !.progress =
                              updateProgressOf(@, section, correct, total)]
                      /\ UNCHANGED user
                 ELSE /\ user' =
                           [user EXCEPT !.progress =
                              updateProgressOf(@, section, correct, total)]
                      /\ UNCHANGED initialUserState
            /\ calls' = [ n |-> calls.n + 1,
                          correct |-> calls.correct + correct,
                          attempted |-> calls.attempted + total ]

\* the arguments finishQuiz calls updateProgress with: the number of
\* correct answers and the length of a non-empty question list
ProgressArguments ==
  UNION { { [section |-> s, correct |-> c, total |-> t] :
              s \in {"math", "verbal"}, c \in 0..t } : t \in 1..MaxCount }

\* updateProgress is called
updateProgress ==
  /\ lastEvent' = "updateProgress"
  /\ \E a \in ProgressArguments :
       updateProgressCall(a.section, a.correct, a.total)
  /\ resultsScreen' = IF user # NoUser THEN Rendered(resultsScreen)
                        ELSE resultsScreen
  /\ UNCHANGED <<now, screenVars, analysisVars, bankVars, userLoad>>

\* setWeakAreas(areas): newUser = {...user, weakAreas: areas}
setWeakAreas(areas) ==
  IF user = NoUser
    THEN UNCHANGED user
    ELSE user' = [user EXCEPT !.weakAreas = areas]

\* the lists of categories setStrengths is called with
StrengthLists == { <<>>, <<"Grammar">> }

\* setStrengths(areas): newUser = {...user, strengths: areas}
setStrengths ==
  /\ lastEvent' = "setStrengths"
  /\ \E areas \in StrengthLists :
       IF user = NoUser
         THEN UNCHANGED user
         ELSE user' = [user EXCEPT !.strengths = areas]
  /\ resultsScreen' = IF user # NoUser THEN Rendered(resultsScreen)
                        ELSE resultsScreen
  /\ UNCHANGED <<now, screenVars, analysisVars, bankVars, initialUserState,
                 calls, progressCall, userLoad>>

(***************************************************************************)
(* QuizScreen                                                              *)
(***************************************************************************)
\* the lists getQuestions can hand to the screen: up to MaxQuestions
\* questions, each with its identifier and the index of its correct
\* option, taken from the first and the third option as in the catalog's
\* math002 and math001; the two keys alternate along a list, from either
Question(i, ca) == [id |-> i, correctAnswer |-> ca]
AnswerKeys == {0, 2}
FetchedLists ==
  UNION { { [i \in 1..n |-> Question(i, IF i % 2 = 1 THEN k ELSE 2 - k)] :
              k \in AnswerKeys } : n \in 0..MaxQuestions }

isMathCategory == params.category \in MathCategories

\* the call updateProgress(isMathCategory ? 'math' : 'verbal',
\* results.correct, questions.length) of finishQuiz
finishQuizProgress(r) ==
  updateProgressCall(IF isMathCategory THEN "math" ELSE "verbal",
                     r.correct, Len(questions))

\* finishQuiz, called from a handler: r and tpq are the results and
\* timePerQuestion cells of the handler's render and t is the value of
\* Date.now() it reads
finishQuiz(r, tpq, t) ==
  [ results |->
      [ correct |-> r.correct,
        incorrect |-> r.incorrect,
        skipped |-> r.skipped,
        totalQuestions |-> Len(questions),
        timeSpent |-> t - quizStartTime,
        averageTimePerQuestion |-> Quot(SumSeq(tpq), Len(tpq)) ],
    performance |->
      [ correctAnswers |-> r.correct,
        totalQuestions |-> Len(questions),
        timeSpent |-> t - quizStartTime,
        category |-> params.category,
        incorrectQuestionIds |->
          LET kept == FilterIncorrect(questions, 0, r)
          IN  [k \in 1..Len(kept) |-> kept[k].id] ],
    \* the arguments of the updateProgress call
    updateProgress |->
      [ section |-> IF isMathCategory THEN "math" ELSE "verbal",
        correct |-> r.correct,
        total |-> Len(questions) ] ]

\* the effect on [currentQuestionIndex, questions.length, isLoading]: c is
\* the record of the cells its updates are applied to, r the cells of the
\* render it was created in (its closure) and t the value of Date.now()
\* it reads.  setTimePerQuestion is given an updater, the other setters
\* a value.
QuestionEffect(c, r, t) ==
  IF ~r.isLoading
    THEN [c EXCEPT
            !.selectedAnswer = NoAnswer,
            !.isAnswerSubmitted = FALSE,
            !.timePerQuestion =
               IF r.currentQuestionIndex > 0
                 THEN Append(@, t - r.questionStartTime) ELSE @,
            !.questionStartTime = t]
    ELSE c

Cells ==
  [ currentQuestionIndex |-> currentQuestionIndex,
    questionsLength |-> Len(questions),
    isLoading |-> isLoading,
    selectedAnswer |-> selectedAnswer,
    isAnswerSubmitted |-> isAnswerSubmitted,
    timePerQuestion |-> timePerQuestion,
    questionStartTime |-> questionStartTime ]

\* the render after a handler that returned at time t0 and left the cells
\* c.  An effect still pending from the committed render runs first, in
\* that render's closure, and its updates follow the handler's.  The
\* cells are committed; when a dependency of the effect differs from the
\* previous render the effect of this commit is due, and it runs at once
\* or is left pending.  Every run of the effect reads the clock itself,
\* at the time of the step before it or later; the clock is left at the
\* last reading.
Commit(c, t0) ==
  \E t1 \in t0..MaxTime :
    LET ran == effectPending /\ ~isLoading
        r2 == IF effectPending THEN QuestionEffect(c, Cells, t1) ELSE c
        changed == \/ r2.currentQuestionIndex # currentQuestionIndex
                   \/ r2.questionsLength # Len(questions)
                   \/ r2.isLoading # isLoading
    IN  /\ t1 # t0 => ran
        /\ \E flush \in BOOLEAN, t2 \in t1..MaxTime :
             LET d == IF flush THEN QuestionEffect(r2, r2, t2) ELSE r2
             IN  /\ flush => changed
                 /\ t2 # t1 => (flush /\ ~r2.isLoading)
                 /\ now' = t2
                 /\ effectPending' = (changed /\ ~flush)
                 /\ currentQuestionIndex' = d.currentQuestionIndex
                 /\ isLoading' = d.isLoading
                 /\ selectedAnswer' = d.selectedAnswer
                 /\ isAnswerSubmitted' = d.isAnswerSubmitted
                 /\ timePerQuestion' = d.timePerQuestion
                 /\ questionStartTime' = d.questionStartTime

QuizShownOnEmptyList == screen = "Quiz" /\ ~isLoading
\* the quiz view is rendered: not loading and at least one question
QuizShown == screen = "Quiz" /\ ~isLoading /\ Len(questions) > 0

\* the buttons under the question: Skip and Submit while the current
\* question is unsubmitted, Next Question / Finish Quiz once it is
SkipSubmitShown == ~isAnswerSubmitted
NextShown == isAnswerSubmitted
\* an option can be pressed unless disabled={isAnswerSubmitted}
OptionEnabled == ~isAnswerSubmitted

\* the updater handleSkipQuestion passes to setResults
SkipUpdate(prev) == [prev EXCEPT !.skipped = @ + 1]

SubmitUpdateAlwaysCorrect(prev, isCorrect) ==
  [prev EXCEPT !.correct = @ + 1]
\* the updater handleSubmitAnswer passes to setResults
SubmitUpdate(prev, isCorrect) ==
  [prev EXCEPT !.correct = IF isCorrect THEN @ + 1 ELSE @,
               !.incorrect = IF ~isCorrect THEN @ + 1 ELSE @]

\* what the history records for a submitted answer
Outcome(isCorrect) == IF isCorrect THEN "correct" ELSE "incorrect"
\* a change of the tallies and the question the handler made it for
Tallied(kind) == [question |-> currentQuestionIndex, outcome |-> kind]

\* the clock advances
Tick ==
  /\ UNCHANGED <<analysisVars, userVars, bankVars, outcomes>>
  /\ now < MaxTime
  /\ now' = now + 1
  /\ lastEvent' = "tick"
  /\ UNCHANGED <<params, screen, questions, currentQuestionIndex,
                 selectedAnswer, isAnswerSubmitted, isLoading,
                 quizStartTime, questionStartTime, timePerQuestion, results,
                 effectPending, navResults>>

\* loadQuestions: getQuestions resolved with the list fetched
loadQuestions ==
  /\ UNCHANGED <<analysisVars, userVars, bankVars, outcomes>>
  /\ screen = "Quiz" /\ isLoading
  /\ \E fetched \in FetchedLists :
       /\ questions' = fetched
       /\ Commit([Cells EXCEPT !.questionsLength = Len(fetched),
                               !.isLoading = FALSE,
                               !.questionStartTime = now], now)
  /\ quizStartTime' = now
  /\ lastEvent' = "load"
  /\ UNCHANGED <<params, screen, results, navResults>>

\* an option is pressed
handleSelectAnswer ==
  /\ UNCHANGED <<analysisVars, userVars, bankVars, outcomes>>
  /\ QuizShown /\ OptionEnabled
  /\ \E index \in 0..(NumOptions - 1) :
       Commit([Cells EXCEPT !.selectedAnswer =
                              IF ~isAnswerSubmitted THEN index ELSE @], now)
  /\ lastEvent' = "select"
  /\ UNCHANGED <<params, screen, questions, quizStartTime, results,
                 navResults>>

handleSubmitAnswerUnchecked ==
  /\ UNCHANGED <<analysisVars, userVars, bankVars>>
  /\ QuizShown /\ SkipSubmitShown
  /\ LET currentQuestion == questions[currentQuestionIndex + 1]
         isCorrect == selectedAnswer = currentQuestion.correctAnswer
     IN  /\ results' = SubmitUpdate(results, isCorrect)
         /\ Commit([Cells EXCEPT !.isAnswerSubmitted = TRUE], now)
         /\ outcomes' = Append(outcomes, Tallied(Outcome(isCorrect)))
         /\ lastEvent' = "submit"
  /\ UNCHANGED <<params, screen, questions, quizStartTime, navResults>>

\* Submit is pressed.  The handler returns early (an alert) when nothing
\* is selected; the button is also rendered disabled in that case.
handleSubmitAnswer ==
  /\ UNCHANGED <<analysisVars, userVars, bankVars>>
  /\ QuizShown /\ SkipSubmitShown
  /\ IF selectedAnswer = NoAnswer
       THEN /\ lastEvent' = "submit-rejected"
            /\ UNCHANGED <<now, results, currentQuestionIndex, isLoading,
                           selectedAnswer, isAnswerSubmitted,
                           timePerQuestion, questionStartTime,
                           effectPending, outcomes>>
       ELSE LET currentQuestion == questions[currentQuestionIndex + 1]
                isCorrect == selectedAnswer = currentQuestion.correctAnswer
            IN  /\ results' = SubmitUpdate(results, isCorrect)
                /\ Commit([Cells EXCEPT !.isAnswerSubmitted = TRUE], now)
                /\ outcomes' = Append(outcomes, Tallied(Outcome(isCorrect)))
                /\ lastEvent' = "submit"
  /\ UNCHANGED <<params, screen, questions, quizStartTime, navResults>>

handleNextQuestionUnbounded ==
  /\ UNCHANGED <<analysisVars, userVars, bankVars, outcomes>>
  /\ QuizShown /\ NextShown
  /\ Commit([Cells EXCEPT !.currentQuestionIndex = @ + 1], now)
  /\ lastEvent' = "next"
  /\ UNCHANGED <<params, questions, quizStartTime, results, screen,
                 navResults>>

\* Next Question / Finish Quiz is pressed
handleNextQuestion ==
  /\ UNCHANGED <<analysisVars, bankVars, outcomes, resultsScreen, userLoad>>
  /\ QuizShown /\ NextShown
  /\ IF currentQuestionIndex < Len(questions) - 1
       THEN /\ Commit([Cells EXCEPT !.currentQuestionIndex = @ + 1], now)
            /\ UNCHANGED <<screen, navResults, progressCells>>
       ELSE /\ navResults' = finishQuiz(results, timePerQuestion, now)
            /\ finishQuizProgress(results)
            /\ screen' = "Results"
            /\ Commit(Cells, now)
  /\ lastEvent' = "next"
  /\ UNCHANGED <<params, questions, quizStartTime, results>>

\* Skip is pressed
handleSkipQuestion ==
  /\ UNCHANGED <<analysisVars, bankVars, resultsScreen, userLoad>>
  /\ QuizShown /\ SkipSubmitShown
  /\ results' = SkipUpdate(results)
  /\ LET skippedTime == Append(timePerQuestion, now - questionStartTime)
     IN  IF currentQuestionIndex < Len(questions) - 1
           THEN /\ Commit([Cells EXCEPT !.currentQuestionIndex = @ + 1,
                                        !.timePerQuestion = skippedTime], now)
                /\ UNCHANGED <<screen, navResults, progressCells>>
           ELSE \* finishQuiz reads the cells of the handler's render
                \* and reads the clock again, at t
                \E t \in now..MaxTime :
                  /\ navResults' = finishQuiz(results, timePerQuestion, t)
                  /\ finishQuizProgress(results)
                  /\ screen' = "Results"
                  /\ Commit([Cells EXCEPT
                               !.timePerQuestion = skippedTime], t)
  /\ outcomes' = Append(outcomes, Tallied("skipped"))
  /\ lastEvent' = "skip"
  /\ UNCHANGED <<params, questions, quizStartTime>>

quitQuizWithResult ==
  /\ UNCHANGED <<analysisVars, bankVars, outcomes, resultsScreen, userLoad>>
  /\ screen = "Quiz" /\ ~isLoading
  /\ screen' = "Results"
  /\ finishQuizProgress(results)
  /\ navResults' =
       finishQuiz([results EXCEPT
                     !.skipped = Len(questions) - results.correct
                                   - results.incorrect], timePerQuestion,
                  now)
  /\ effectPending' = FALSE
  /\ lastEvent' = "quit"
  /\ UNCHANGED <<now, params, questions, currentQuestionIndex,
                 selectedAnswer, isAnswerSubmitted, isLoading,
                 quizStartTime, questionStartTime, timePerQuestion, results>>

\* Quit is confirmed on the close button, or Go Back is pressed on the
\* "no questions" view: navigation.goBack().  The screen is unmounted;
\* the updates of an effect still pending go to no component.
quitQuiz ==
  /\ UNCHANGED <<analysisVars, userVars, bankVars, outcomes>>
  /\ screen = "Quiz" /\ ~isLoading
  /\ screen' = "Back"
  /\ effectPending' = FALSE
  /\ lastEvent' = "quit"
  /\ UNCHANGED <<now, params, questions, currentQuestionIndex,
                 selectedAnswer, isAnswerSubmitted, isLoading,
                 quizStartTime, questionStartTime, timePerQuestion, results,
                 navResults>>

\* the reset effect left pending by a commit runs, in the closure of the
\* committed render, and its updates are committed
passiveEffect ==
  /\ UNCHANGED <<analysisVars, userVars, bankVars, outcomes>>
  /\ effectPending
  /\ LET d == QuestionEffect(Cells, Cells, now)
     IN  /\ selectedAnswer' = d.selectedAnswer
         /\ isAnswerSubmitted' = d.isAnswerSubmitted
         /\ timePerQuestion' = d.timePerQuestion
         /\ questionStartTime' = d.questionStartTime
  /\ effectPending' = FALSE
  /\ lastEvent' = "effect"
  /\ UNCHANGED <<now, params, screen, questions, currentQuestionIndex,
                 isLoading, quizStartTime, results, navResults>>

QuizInit ==
  /\ now = 0
  /\ params \in [category : {"Algebra", "Grammar"}]
  /\ screen = "Quiz"
  /\ questions = <<>>
  /\ currentQuestionIndex = 0
  /\ selectedAnswer = NoAnswer
  /\ isAnswerSubmitted = FALSE
  /\ isLoading = TRUE
  /\ quizStartTime = 0
  /\ questionStartTime = 0
  /\ timePerQuestion = <<>>
  /\ results = [correct |-> 0, incorrect |-> 0, skipped |-> 0]
  /\ navResults = NoResult
  /\ effectPending = FALSE
  /\ lastEvent = "mount"
  /\ outcomes = <<>>

AnalysisIdle ==
  /\ performances = <<>>
  /\ performanceByCategory = <<>>
  /\ recommendations = <<>>
  /\ prediction = [mathScore |-> 0, verbalScore |-> 0, totalScore |-> 0]
  /\ analysisStep = "idle"

NoCall ==
  [ pc |-> "idle", config |-> [categories |-> <<>>, difficulty |-> "undefined",
                               count |-> 1, useAI |-> FALSE],
    allQuestions |-> <<>>, neededCount |-> 0, next |-> 1,
    requests |-> <<>>, failure |-> "none" ]

NoUpdate == [ pc |-> "idle", categories |-> <<>>, next |-> 1 ]

BankIdle ==
  /\ aiGeneratedQuestions = <<>>
  /\ call = NoCall
  /\ returned = <<>>
  /\ update = NoUpdate

Init == QuizInit /\ AnalysisIdle /\ BankIdle /\ UserAtQuiz

Next ==
  \/ Tick
  \/ loadQuestions
  \/ handleSelectAnswer
  \/ handleSubmitAnswer
  \/ handleNextQuestion
  \/ handleSkipQuestion
  \/ passiveEffect
  \/ quitQuiz

Spec == Init /\ [][Next]_vars

(***************************************************************************)
(* AIService: analyzePerformance, generateRecommendations, predictSATScore *)
(***************************************************************************)
\* Record<QuestionCategory, number> as the list of its entries in
\* insertion order, the order Object.entries and forEach visit them in
MapHas(m, k) == \E i \in 1..Len(m) : m[i].category = k
MapGet(m, k) == m[CHOOSE i \in 1..Len(m) : m[i].category = k].rate
MapSet(m, k, v) ==
  IF MapHas(m, k)
    THEN [i \in 1..Len(m) |->
            IF m[i].category = k THEN [category |-> k, rate |-> v] ELSE m[i]]
    ELSE Append(m, [category |-> k, rate |-> v])

\* !x for x a number: 0 and NaN are falsy
IsFalsyNumber(x) == IsNaN(x) \/ (x.n = 0 /\ x.d # 0)

\* the test of analyzePerformance: nothing stored yet for the category
\* (or a falsy rate), or a lower rate than the stored one
ReplacesStored(m, k, successRate) ==
  \/ ~MapHas(m, k)
  \/ IsFalsyNumber(MapGet(m, k))
  \/ NumLess(successRate, MapGet(m, k))

RECURSIVE analyzeFrom(_, _)
\* performances.forEach(perf => ...) from the map m on
analyzeFrom(perfs, m) ==
  IF perfs = <<>> THEN m
  ELSE LET perf == Head(perfs)
           successRate == Quot(perf.correctAnswers, perf.totalQuestions)
       IN  analyzeFrom(Tail(perfs),
             IF ReplacesStored(m, perf.category, successRate)
               THEN MapSet(m, perf.category, successRate)
               ELSE m)

analyzePerformance(perfs) == analyzeFrom(perfs, <<>>)

\* score < 0.7
IsWeakInclusive(score) == ~NumLess(Quot(7, 10), score) /\ ~IsNaN(score)
IsWeak(score) == NumLess(score, Quot(7, 10))

Recommendation(e) ==
  [category |-> e.category, reasonPercent |-> MathRound(e.rate, 100)]

RECURSIVE recommendFrom(_)
\* Object.entries(weakAreas).forEach(...) with recommendations.push
recommendFrom(entries) ==
  IF entries = <<>> THEN <<>>
  ELSE (IF IsWeak(Head(entries).rate)
          THEN <<Recommendation(Head(entries))>> ELSE <<>>)
         \o recommendFrom(Tail(entries))

\* generateRecommendations: the list is returned as pushed, unsorted
generateRecommendations(weakAreas) == recommendFrom(weakAreas)

RECURSIVE SumField(_, _)
\* perfs.reduce((sum, perf) => sum + perf[field], 0)
SumField(perfs, field) ==
  IF perfs = <<>> THEN 0
  ELSE Head(perfs)[field] + SumField(Tail(perfs), field)

\* one section of predictSATScore
SectionScore(perfs) ==
  LET correct == SumField(perfs, "correctAnswers")
      total == SumField(perfs, "totalQuestions")
      percentage == IF total > 0 THEN Quot(correct, total) ELSE Quot(0, 1)
  IN  MathRound(percentage, 800)

predictSATScore(mathPerformances, verbalPerformances) ==
  LET predictedMathScore == SectionScore(mathPerformances)
      predictedVerbalScore == SectionScore(verbalPerformances)
  IN  [ mathScore |-> predictedMathScore,
        verbalScore |-> predictedVerbalScore,
        totalScore |-> predictedMathScore + predictedVerbalScore ]

\* the records the analysis is run on: a category, and correctAnswers out
\* of totalQuestions
AnalysisCategories == {"Algebra", "Grammar"}
PerformanceRecords ==
  { [category |-> c, correctAnswers |-> k, totalQuestions |-> t] :
      c \in AnalysisCategories, k \in 0..MaxTotal, t \in {0, 3, MaxTotal} }
ValidRecords ==
  {p \in PerformanceRecords : p.correctAnswers <= p.totalQuestions}

\* the caller's split of the records into the two sections
MathPerformances(perfs) ==
  SelectSeq(perfs, LAMBDA p : p.category \in MathCategories)
VerbalPerformances(perfs) ==
  SelectSeq(perfs, LAMBDA p : p.category \in VerbalCategories)

analyze ==
  /\ analysisStep = "input"
  /\ performanceByCategory' = analyzePerformance(performances)
  /\ analysisStep' = "analyzed"
  /\ UNCHANGED <<now, quizVars, bankVars, userVars, performances,
                 recommendations, prediction>>

recommend ==
  /\ analysisStep = "analyzed"
  /\ recommendations' = generateRecommendations(performanceByCategory)
  /\ analysisStep' = "recommended"
  /\ UNCHANGED <<now, quizVars, bankVars, userVars, performances,
                 performanceByCategory,
                 prediction>>

predict ==
  /\ analysisStep = "recommended"
  /\ prediction' = predictSATScore(MathPerformances(performances),
                                   VerbalPerformances(performances))
  /\ analysisStep' = "predicted"
  /\ UNCHANGED <<now, quizVars, bankVars, userVars, performances,
                 performanceByCategory,
                 recommendations>>

QuizIdle ==
  /\ now = 0
  /\ params = [category |-> "Algebra"]
  /\ screen = "Back"
  /\ questions = <<>>
  /\ currentQuestionIndex = 0
  /\ selectedAnswer = NoAnswer
  /\ isAnswerSubmitted = FALSE
  /\ isLoading = TRUE
  /\ quizStartTime = 0
  /\ questionStartTime = 0
  /\ timePerQuestion = <<>>
  /\ results = [correct |-> 0, incorrect |-> 0, skipped |-> 0]
  /\ navResults = NoResult
  /\ effectPending = FALSE
  /\ lastEvent = "mount"
  /\ outcomes = <<>>

AnalysisInit ==
  /\ QuizIdle
  /\ BankIdle
  /\ UserIdle
  /\ \E n \in 0..MaxRecords : performances \in [1..n -> ValidRecords]
  /\ performanceByCategory = <<>>
  /\ recommendations = <<>>
  /\ prediction = [mathScore |-> 0, verbalScore |-> 0, totalScore |-> 0]
  /\ analysisStep = "input"

AnalysisNext == analyze \/ recommend \/ predict

SpecAnalysis == AnalysisInit /\ [][AnalysisNext]_vars

(***************************************************************************)
(* QuestionService: the question bank and getQuestions                     *)
(***************************************************************************)
\* a Question; options is the length of its options array
BankQuestion(id, category, difficulty, options, correctAnswer, isAI) ==
  [ id |-> id, category |-> category, difficulty |-> difficulty,
    options |-> options, correctAnswer |-> correctAnswer,
    isAIGenerated |-> isAI ]

\* the catalog
mockQuestions ==
  << BankQuestion(<<"math001">>, "Algebra", "Easy", 4, 2, FALSE),
     BankQuestion(<<"math002">>, "Algebra", "Medium", 4, 0, FALSE),
     BankQuestion(<<"math003">>, "Geometry", "Easy", 4, 1, FALSE),
     BankQuestion(<<"verbal001">>, "Reading Comprehension", "Medium", 4, 2,
                  FALSE),
     BankQuestion(<<"verbal002">>, "Grammar", "Easy", 4, 1, FALSE) >>

\* the categories generated for when the configuration names none
DefaultCategories ==
  <<"Algebra", "Reading Comprehension", "Grammar", "Geometry">>

NoDifficulty == "undefined"

\* the configurations getQuestions is called with
Configs ==
  [ categories : {<<>>, <<"Grammar">>, <<"Algebra", "Geometry">>},
    difficulty : {NoDifficulty, "Hard"},
    count : 1..MaxCount,
    useAI : BOOLEAN ]

InSeq(x, s) == \E i \in 1..Len(s) : s[i] = x

\* the two filters of getQuestions, by category and by difficulty
MatchesConfig(q, config) ==
  /\ Len(config.categories) > 0 => InSeq(q.category, config.categories)
  /\ config.difficulty # NoDifficulty => q.difficulty = config.difficulty

\* shuffleArray: Fisher-Yates on Math.random yields any permutation
Shuffles(s) ==
  { [i \in 1..Len(s) |-> s[p[i]]] : p \in Permutations(1..Len(s)) }

\* array.slice(0, count)
Slice(s, count) == SubSeq(s, 1, IF count < Len(s) THEN count ELSE Len(s))

ShuffledSlicesUncut(s, count) ==
  LET m == Len(s)
  IN  { [i \in 1..m |-> s[f[i]]] :
          f \in { g \in [1..m -> 1..Len(s)] :
                    \A i, j \in 1..m : i # j => g[i] # g[j] } }
\* shuffleArray(s).slice(0, count): the first count elements of any
\* permutation of s, that is any arrangement of min(count, Len(s))
\* distinct positions of s
ShuffledSlices(s, count) ==
  LET m == IF count < Len(s) THEN count ELSE Len(s)
  IN  { [i \in 1..m |-> s[f[i]]] :
          f \in { g \in [1..m -> 1..Len(s)] :
                    \A i, j \in 1..m : i # j => g[i] # g[j] } }

CeilTruncating(a, b) == a \div b
\* Math.ceil(a / b) for a >= 0 and b > 0
Ceil(a, b) == (a + b - 1) \div b

\* the values Date.now() can take in k successive readings, none of them
\* before now
Stamps(k) ==
  { stamps \in [1..k -> now..MaxTime] :
      \A i \in 1..(k - 1) : stamps[i] <= stamps[i + 1] }

\* the clock after the readings stamps
LastStamp(stamps) == IF stamps = <<>> THEN now ELSE stamps[Len(stamps)]

\* getMockQuestionsForCategory: ids gen_<Date.now()>_<i>, the clock read
\* in every turn of the loop, four options, the first one correct
getMockQuestionsForCategory(category, difficulty, count, stamps) ==
  [ i \in 1..count |->
      BankQuestion(<<"gen", stamps[i], i - 1>>, category, difficulty, 4, 0,
                   TRUE) ]

\* the objects of a parsed completion, by the length of their options
\* array and their correctAnswerIndex: as the prompt asks, or three options
\* with the index 3
ResponseObjects ==
  { [options |-> 4, correctAnswerIndex |-> 1],
    [options |-> 3, correctAnswerIndex |-> 3] }

\* the questions built from a parsed completion of k objects q:
\* ids ai_<Date.now()>_<index>, the clock read for every object, options
\* and correctAnswer as received
ParsedQuestions(category, difficulty, k, q, stamps) ==
  [ i \in 1..k |->
      BankQuestion(<<"ai", stamps[i], i - 1>>, category, difficulty,
                   q.options, q.correctAnswerIndex, TRUE) ]

\* what a generation request meets: no API keys, a failed search, a failed
\* post, a completion that JSON.parse rejects, or none of these; and the
\* completion received when the post succeeds
ThrowingFailures == {"keys", "transport", "unparsable"}
Environments ==
  [ failure : ThrowingFailures, k : {0},
    object : {[options |-> 4, correctAnswerIndex |-> 1]} ]
    \cup [ failure : {"search", "none"}, k : 0..MaxBatch,
           object : ResponseObjects ]

\* generateAIQuestions in the environment env: a throw in the try block
\* resolves with the template questions; a failed search is caught in
\* searchForContentInsights, which answers with its fixed insights
generateAIQuestionsIn(env, category, difficulty, count, stamps) ==
  IF env.failure \in ThrowingFailures
    THEN getMockQuestionsForCategory(category, difficulty, count, stamps)
    ELSE ParsedQuestions(category, difficulty, env.k, env.object, stamps)

\* the number of questions generateAIQuestions builds in env
BatchLength(env, count) ==
  IF env.failure \in ThrowingFailures THEN count ELSE env.k

\* the lists generateAIQuestions can resolve with
generateAIQuestions(category, difficulty, count) ==
  UNION { { generateAIQuestionsIn(env, category, difficulty, count, stamps) :
              stamps \in Stamps(BatchLength(env, count)) } :
          env \in Environments }

\* the arguments of a generateAIQuestions call
Request(category, difficulty, count) ==
  [ category |-> category, difficulty |-> difficulty, count |-> count ]

RequestCategories(config) ==
  IF Len(config.categories) > 0 THEN config.categories
  ELSE DefaultCategories

RequestDifficulty(config) ==
  IF config.difficulty # NoDifficulty THEN config.difficulty ELSE "Medium"

AppendToPoolReplacing(pool, convertedQuestions) == convertedQuestions
\* aiGeneratedQuestions = [...aiGeneratedQuestions, ...convertedQuestions],
\* evaluated in one piece after the await has resumed
AppendToPool(pool, convertedQuestions) == pool \o convertedQuestions

getQuestionsWithAlwaysGenerating(config) ==
  LET filteredQuestions ==
        SelectSeq(mockQuestions, LAMBDA q : MatchesConfig(q, config))
      matchingAIQuestions ==
        SelectSeq(aiGeneratedQuestions, LAMBDA q : MatchesConfig(q, config))
      matching == filteredQuestions \o matchingAIQuestions
  IN  IF Len(matching) < config.count
        THEN /\ \E allQuestions \in Shuffles(matching) :
                  call' = [ pc |-> "generating",
                            config |-> config,
                            allQuestions |-> allQuestions,
                            neededCount |-> config.count - Len(allQuestions),
                            next |-> 1,
                            requests |-> <<>>,
                            failure |-> "none" ]
             /\ returned' = <<>>
        ELSE /\ call' = [NoCall EXCEPT !.pc = "done", !.config = config]
             /\ returned' \in ShuffledSlices(matching, config.count)

\* getQuestions(config) up to its first await, or to its return when
\* nothing is generated
getQuestionsWith(config) ==
  LET filteredQuestions ==
        SelectSeq(mockQuestions, LAMBDA q : MatchesConfig(q, config))
      matchingAIQuestions ==
        SelectSeq(aiGeneratedQuestions, LAMBDA q : MatchesConfig(q, config))
      matching == filteredQuestions \o matchingAIQuestions
  IN  IF config.useAI /\ Len(matching) < config.count
        THEN /\ \E allQuestions \in Shuffles(matching) :
                  call' = [ pc |-> "generating",
                            config |-> config,
                            allQuestions |-> allQuestions,
                            neededCount |-> config.count - Len(allQuestions),
                            next |-> 1,
                            requests |-> <<>>,
                            failure |-> "none" ]
             /\ returned' = <<>>
        ELSE /\ call' = [NoCall EXCEPT !.pc = "done", !.config = config]
             /\ returned' \in ShuffledSlices(matching, config.count)

\* a getQuestions call is made on the idle service
getQuestionsStart ==
  /\ call.pc = "idle"
  /\ Len(aiGeneratedQuestions) < MaxPool
  /\ \E config \in Configs : getQuestionsWith(config)
  /\ UNCHANGED <<now, quizVars, analysisVars, userVars, aiGeneratedQuestions,
                 update>>

\* one generateAIQuestions call of the loop resolves: its batch is added to
\* the pool and to the working set; after the last category the working
\* set is shuffled again and sliced.  The pool is kept within MaxPool.
getQuestionsBatch ==
  /\ call.pc = "generating"
  /\ LET config == call.config
         categories == RequestCategories(config)
         category == categories[call.next]
         request == Request(category, RequestDifficulty(config),
                            Ceil(call.neededCount, Len(categories)))
     IN  \E env \in Environments :
         \E stamps \in Stamps(BatchLength(env, request.count)) :
           LET aiQuestions ==
                 generateAIQuestionsIn(env, request.category,
                                       request.difficulty, request.count,
                                       stamps)
               convertedQuestions == aiQuestions
               allQuestions == call.allQuestions \o convertedQuestions
               requests == Append(call.requests, request)
           IN  /\ Len(aiGeneratedQuestions) + Len(convertedQuestions)
                    <= MaxPool
               /\ now' = LastStamp(stamps)
               /\ aiGeneratedQuestions' =
                    AppendToPool(aiGeneratedQuestions, convertedQuestions)
               /\ IF call.next < Len(categories)
                    THEN /\ call' = [call EXCEPT
                                       !.allQuestions = allQuestions,
                                       !.next = @ + 1,
                                       !.requests = requests,
                                       !.failure = env.failure]
                         /\ UNCHANGED returned
                    ELSE /\ call' = [NoCall EXCEPT !.pc = "done",
                                                  !.config = config,
                                                  !.requests = requests,
                                                  !.failure = env.failure]
                         /\ returned' \in
                              ShuffledSlices(allQuestions, config.count)
  /\ UNCHANGED <<quizVars, analysisVars, userVars, update>>

\* the clock advances while the service runs
BankTick ==
  /\ now < MaxTime
  /\ now' = now + 1
  /\ UNCHANGED <<quizVars, analysisVars, userVars, bankVars>>

BankInit ==
  /\ QuizIdle
  /\ AnalysisIdle
  /\ BankIdle
  /\ UserIdle

\* the caller's await resumes with the returned list; the service is
\* free for the next call
getQuestionsResolved ==
  /\ call.pc = "done"
  /\ call' = NoCall
  /\ returned' = <<>>
  /\ UNCHANGED <<now, quizVars, analysisVars, userVars, aiGeneratedQuestions,
                 update>>

\* the categories trackSATUpdates can report as updated
UpdatedCategories ==
  { <<>>, <<"Algebra">>, <<"Reading Comprehension">>,
    <<"Algebra", "Reading Comprehension">> }

\* updateQuestionBank up to the first generateAIQuestions call of its
\* loop: trackSATUpdates and refreshAIQuestionBank have resolved.  Without
\* updates, or with no updated category, the call returns true and leaves
\* the bank as it is.
updateQuestionBankStart ==
  /\ update.pc = "idle"
  /\ \E hasUpdates \in BOOLEAN, updatedCategories \in UpdatedCategories :
       update' = IF hasUpdates /\ Len(updatedCategories) > 0
                   THEN [ pc |-> "generating",
                          categories |-> updatedCategories, next |-> 1 ]
                   ELSE NoUpdate
  /\ UNCHANGED <<now, quizVars, analysisVars, userVars, aiGeneratedQuestions,
                 call,
                 returned>>

\* one generateAIQuestions(category, 'Medium', 3) call of the loop of
\* updateQuestionBank resolves: its batch is added to the pool.  The pool
\* is kept within MaxUpdatePool.
updateQuestionBankBatch ==
  /\ update.pc = "generating"
  /\ \E env \in Environments :
     \E stamps \in Stamps(BatchLength(env, 3)) :
       LET newQuestions ==
             generateAIQuestionsIn(env, update.categories[update.next],
                                   "Medium", 3, stamps)
           convertedQuestions == newQuestions
       IN  /\ Len(aiGeneratedQuestions) + Len(convertedQuestions)
                <= MaxUpdatePool
           /\ aiGeneratedQuestions' =
                AppendToPool(aiGeneratedQuestions, convertedQuestions)
           /\ now' = LastStamp(stamps)
  /\ update' = IF update.next < Len(update.categories)
                 THEN [update EXCEPT !.next = @ + 1]
                 ELSE NoUpdate
  /\ UNCHANGED <<quizVars, analysisVars, userVars, call, returned>>

clearAIGeneratedQuestionsKeepingFirst ==
  /\ aiGeneratedQuestions' =
       SubSeq(aiGeneratedQuestions, 1, Min(1, Len(aiGeneratedQuestions)))
  /\ UNCHANGED <<now, quizVars, analysisVars, userVars, call, returned,
                 update>>

\* clearAIGeneratedQuestions
clearAIGeneratedQuestions ==
  /\ aiGeneratedQuestions' = <<>>
  /\ UNCHANGED <<now, quizVars, analysisVars, userVars, call, returned,
                 update>>

\* [...mockQuestions, ...pool].find(q => q.id === questionId)
Undefined == [undefined |-> TRUE]
getQuestionById(pool, questionId) ==
  LET all == mockQuestions \o pool
      found == { i \in 1..Len(all) : all[i].id = questionId }
  IN  IF found = {} THEN Undefined
      ELSE all[CHOOSE i \in found : \A j \in found : i <= j]

BankNext ==
  \/ getQuestionsStart
  \/ getQuestionsBatch
  \/ getQuestionsResolved
  \/ BankTick

SpecBank == BankInit /\ [][BankNext]_vars

(***************************************************************************)
(* The bank as the screens use it: QuizScreen mounts and loads its         *)
(* questions, PracticeScreen updates the bank, the pool is cleared, and    *)
(* the calls interleave at their awaits                                    *)
(***************************************************************************)
\* the route params a quiz is opened with: one question of a category
\* and difficulty the catalog has no question for
QuizParams ==
  [ category : {"Grammar"}, difficulty : {"Hard"},
    questionCount : {1}, useAI : BOOLEAN ]

\* the configuration loadQuestions builds from the route params
QuizConfig(p) ==
  [ categories |-> <<p.category>>, difficulty |-> p.difficulty,
    count |-> p.questionCount, useAI |-> p.useAI ]

\* getQuestions is called with the configuration of a quiz
getQuestionsForQuiz ==
  /\ call.pc = "idle"
  /\ \E p \in QuizParams : getQuestionsWith(QuizConfig(p))
  /\ UNCHANGED <<now, quizVars, analysisVars, userVars, aiGeneratedQuestions,
                 update>>

\* the pool under the calls the screens make: quizzes load their
\* questions, the practice screen updates the bank, the pool is cleared.
\* The clock is read by the batches only, and each reading is at or after
\* the one before.
PoolNext ==
  \/ getQuestionsForQuiz
  \/ getQuestionsBatch
  \/ getQuestionsResolved
  \/ updateQuestionBankStart
  \/ updateQuestionBankBatch
  \/ clearAIGeneratedQuestions

SpecPool == BankInit /\ [][PoolNext]_vars

\* the cells of QuizScreen that loadQuestions sets
loadedCells ==
  <<questions, currentQuestionIndex, selectedAnswer, isAnswerSubmitted,
    isLoading, quizStartTime, questionStartTime, timePerQuestion,
    effectPending>>

\* QuizScreen is mounted and its effect calls getQuestions
loadQuestionsStart ==
  /\ screen = "Back" /\ call.pc = "idle"
  /\ \E p \in QuizParams :
       /\ params' = p
       /\ getQuestionsWith(QuizConfig(p))
  /\ screen' = "Quiz"
  /\ UNCHANGED <<now, loadedCells, results, navResults, lastEvent, outcomes,
                 analysisVars, userVars, aiGeneratedQuestions, update>>

loadQuestionsResolvedUnmounted ==
  /\ call.pc = "done"
  /\ call' = NoCall
  /\ returned' = <<>>
  /\ questions' = returned
  /\ Commit([Cells EXCEPT !.questionsLength = Len(returned),
                          !.isLoading = FALSE,
                          !.questionStartTime = now], now)
  /\ quizStartTime' = now
  /\ UNCHANGED <<params, screen, results, navResults, lastEvent,
                 outcomes, analysisVars, userVars, aiGeneratedQuestions,
                 update>>

\* the await of loadQuestions resumes with the list getQuestions returned:
\* the cells are set and the reset effect runs, unless the screen has
\* been left, when the setters of the unmounted component do nothing
loadQuestionsResolved ==
  /\ call.pc = "done"
  /\ call' = NoCall
  /\ returned' = <<>>
  /\ IF screen = "Quiz"
       THEN /\ questions' = returned
            /\ Commit([Cells EXCEPT !.questionsLength = Len(returned),
                                    !.isLoading = FALSE,
                                    !.questionStartTime = now], now)
            /\ quizStartTime' = now
       ELSE UNCHANGED <<now, loadedCells>>
  /\ UNCHANGED <<params, screen, results, navResults, lastEvent,
                 outcomes, analysisVars, userVars, aiGeneratedQuestions,
                 update>>

\* the quiz screen is left (back button): the component is unmounted and
\* its cells are gone; the next mount starts from the constructed values
navigateAway ==
  /\ screen = "Quiz" /\ call.pc # "done"
  /\ screen' = "Back"
  /\ questions' = <<>>
  /\ isLoading' = TRUE
  /\ quizStartTime' = 0
  /\ questionStartTime' = 0
  /\ effectPending' = FALSE
  /\ UNCHANGED <<now, params, currentQuestionIndex, selectedAnswer,
                 isAnswerSubmitted, timePerQuestion, results, navResults,
                 lastEvent, outcomes, analysisVars, userVars, bankVars>>

\* the quiz screen alone, mounted and left while the clock runs: what a
\* response arriving after the screen was left is applied to
LeaveNext ==
  \/ loadQuestionsStart
  \/ getQuestionsBatch
  \/ loadQuestionsResolved
  \/ passiveEffect
  \/ navigateAway
  \/ BankTick

SpecLeave == BankInit /\ [][LeaveNext]_vars

(***************************************************************************)
(* The provider on its own, and the analysis effect of the Results        *)
(* screen that reports weak areas                                         *)
(***************************************************************************)
UserNext ==
  \/ loadUser
  \/ login
  \/ logout
  \/ updateProgress
  \/ setStrengths

UserContextInit ==
  /\ QuizIdle
  /\ AnalysisIdle
  /\ BankIdle
  /\ UserInit

SpecUser == UserContextInit /\ [][UserNext]_vars

\* getQuestionsByIds
getQuestionsByIds(pool, questionIds) ==
  SelectSeq(mockQuestions \o pool, LAMBDA q : InSeq(q.id, questionIds))

\* getSimilarQuestions: the lists it can return
getSimilarQuestions(pool, incorrectQuestionIds, count) ==
  LET incorrectQuestions == getQuestionsByIds(pool, incorrectQuestionIds)
      categories == { incorrectQuestions[i].category :
                        i \in 1..Len(incorrectQuestions) }
      similarQuestions ==
        SelectSeq(mockQuestions \o pool,
                  LAMBDA q : /\ q.category \in categories
                             /\ ~InSeq(q.id, incorrectQuestionIds))
  IN  ShuffledSlices(similarQuestions, count)

\* the lists of incorrectly answered questions a quiz reports
IncorrectIdLists == { <<>>, << <<"math001">> >>, << <<"verbal002">> >> }

\* params.performance of the Results screen: the record finishQuiz builds
\* for a quiz over a non-empty question list
ResultsPerformances ==
  UNION { { [ category |-> c, correctAnswers |-> k, totalQuestions |-> t,
              incorrectQuestionIds |-> ids ] :
              c \in AnalysisCategories, k \in 0..t,
              ids \in IncorrectIdLists } : t \in 1..MaxQuestions }

\* the Results screen is mounted on the params of a finished quiz; its
\* analysis effect sets the timer
mountResults ==
  /\ resultsScreen = NoScreen
  /\ \E performance \in ResultsPerformances :
       resultsScreen' = [ performance |-> performance,
                          timer |-> TRUE,
                          isAnalyzing |-> TRUE,
                          weakAreas |-> <<>>,
                          recommendations |-> <<>>,
                          similarQuestions |-> <<>> ]
  /\ UNCHANGED <<now, quizVars, analysisVars, bankVars, progressCells,
                 userLoad>>

\* x.length > 0 for the object x that analyzePerformance returns: the
\* object has a length only if a category of that name was recorded
LengthIsPositive(x) ==
  MapHas(x, "length") /\ NumLess(Quot(0, 1), MapGet(x, "length"))

\* the timer of the analysis effect fires, for the first time or after a
\* render of the provider has set it again; a setWeakAreas that changes
\* the user is such a render
analysisTimeout ==
  /\ resultsScreen # NoScreen
  /\ resultsScreen.timer
  /\ LET performance == resultsScreen.performance
         detectedWeakAreas == analyzePerformance(<<performance>>)
         studyRecommendations == generateRecommendations(detectedWeakAreas)
     IN  /\ \E similarQs \in
               getSimilarQuestions(aiGeneratedQuestions,
                                   performance.incorrectQuestionIds, 5) :
               resultsScreen' =
                 [resultsScreen EXCEPT
                    !.weakAreas = detectedWeakAreas,
                    !.recommendations = studyRecommendations,
                    !.similarQuestions = similarQs,
                    !.isAnalyzing = FALSE,
                    !.timer = LengthIsPositive(detectedWeakAreas)
                                /\ user # NoUser]
         /\ IF LengthIsPositive(detectedWeakAreas)
              THEN setWeakAreas(detectedWeakAreas)
              ELSE UNCHANGED user
  /\ UNCHANGED <<now, quizVars, analysisVars, bankVars, initialUserState,
                 calls, progressCall, userLoad>>

\* the Results screen is left: the cleanup of the effect clears the timer
leaveResults ==
  /\ resultsScreen # NoScreen
  /\ resultsScreen' = NoScreen
  /\ UNCHANGED <<now, quizVars, analysisVars, bankVars, progressCells,
                 userLoad>>

ResultsNext ==
  \/ login
  \/ logout
  \/ mountResults
  \/ analysisTimeout
  \/ leaveResults

\* the pool when the Results screen is opened: empty, or the two
\* questions generated for an Algebra quiz
ResultsPools ==
  { <<>>, getMockQuestionsForCategory("Algebra", "Medium", 2, <<0, 0>>) }

ResultsInit ==
  /\ QuizIdle
  /\ AnalysisIdle
  /\ UserIdle
  /\ aiGeneratedQuestions \in ResultsPools
  /\ call = NoCall
  /\ returned = <<>>
  /\ update = NoUpdate

SpecResults == ResultsInit /\ [][ResultsNext]_vars

TypeOK ==
  /\ currentQuestionIndex \in 0..MaxQuestions
  /\ selectedAnswer \in {NoAnswer} \cup 0..(NumOptions - 1)

(***************************************************************************)
(* Properties of the quiz session                                          *)
(***************************************************************************)
Tally(r) == r.correct + r.incorrect + r.skipped

\* C1: every result record handed to the Results screen satisfies
\* correct + incorrect + skipped = totalQuestions.
C1_ResultTalliesSumToTotal ==
  navResults # NoResult =>
    Tally(navResults.results) = navResults.results.totalQuestions

\* the tallies made for question q, and those a submit made
OutcomesOf(q) == { j \in 1..Len(outcomes) : outcomes[j].question = q }
SubmitsOf(q) == { j \in OutcomesOf(q) : outcomes[j].outcome # "skipped" }

\* C2: once the current question is submitted no further submit is
\* accepted for it, and the tallies stay as the first submit left them
\* for as long as the index does not advance: no question is tallied by
\* more than one submit.
C2_NoSecondSubmit ==
  /\ [][isAnswerSubmitted =>
         /\ lastEvent' # "submit"
         /\ (currentQuestionIndex' = currentQuestionIndex
               => results' = results)]_vars
  /\ [](\A q \in 0..MaxQuestions : Cardinality(SubmitsOf(q)) <= 1)

\* C7 (as stated): abandoning a running session materializes a result in
\* which the tallies so far are kept, the remaining questions count as
\* skipped and totalQuestions is the full question count.
C7_AbandonMaterializesResult ==
  (lastEvent = "quit" /\ Len(questions) > 0) =>
    /\ navResults # NoResult
    /\ navResults.results.correct = results.correct
    /\ navResults.results.incorrect = results.incorrect
    /\ navResults.results.totalQuestions = Len(questions)
    /\ Tally(navResults.results) = Len(questions)

\* C7 (amended): abandoning a running session leaves the quiz screen and
\* hands no result record to the Results screen; the tallies recorded so
\* far are not reported.
C7_AbandonDiscardsSession ==
  lastEvent = "quit" => screen = "Back" /\ navResults = NoResult

C7_Witness ==
  /\ lastEvent = "quit" /\ screen = "Back"
  /\ results.correct + results.incorrect >= 1
  /\ currentQuestionIndex < Len(questions) - 1

\* C8: whenever the current index changes, the tallies sum to the new
\* index.
C8_TalliesEqualIndexAfterTransition ==
  [][currentQuestionIndex' # currentQuestionIndex
       => Tally(results') = currentQuestionIndex']_vars

\* the question on screen
CurrentQuestion == questions[currentQuestionIndex + 1]

\* C13: a selection is accepted only while the current question is
\* unsubmitted, where it replaces whatever was selected by one of the
\* options; once the question is submitted the selected choice stays as it
\* is for as long as the index does not advance.
C13_SelectionFrozenOnceSubmitted ==
  [][/\ lastEvent' = "select" =>
          /\ ~isAnswerSubmitted
          /\ selectedAnswer' \in 0..(NumOptions - 1)
          /\ ~isAnswerSubmitted'
     /\ (/\ SubmitsOf(currentQuestionIndex)' # {}
         /\ currentQuestionIndex' = currentQuestionIndex)
          => selectedAnswer' = selectedAnswer]_vars

\* C14: a submit of a selected answer changes exactly one tally: correct
\* grows by one when the selected index is the question's correct answer,
\* incorrect grows by one when it is not; skipped stays.
C14_SubmitCreditsSelection ==
  [][lastEvent' = "submit" =>
       /\ selectedAnswer # NoAnswer
       /\ results'.skipped = results.skipped
       /\ selectedAnswer = CurrentQuestion.correctAnswer =>
            /\ results'.correct = results.correct + 1
            /\ results'.incorrect = results.incorrect
       /\ selectedAnswer # CurrentQuestion.correctAnswer =>
            /\ results'.incorrect = results.incorrect + 1
            /\ results'.correct = results.correct]_vars

\* both outcomes have been credited, the last one just now
C14_Witness ==
  /\ lastEvent = "submit"
  /\ results.correct = 1 /\ results.incorrect = 1
  /\ selectedAnswer # CurrentQuestion.correctAnswer

C16_SkipCountsOnlySkipped ==
  /\ [][lastEvent' = "skip" =>
         /\ ~isAnswerSubmitted
         /\ results'.skipped = results.skipped + 1
         /\ results'.correct = results.correct
         /\ results'.incorrect = results.incorrect]_vars
  /\ [](\A j \in 1..Len(outcomes) :
          outcomes[j].outcome = "skipped"
            => OutcomesOf(outcomes[j].question) = {j})

\* the history o has a tally made for question q
TalliedIn(o, q) == \E j \in 1..Len(o) : o[j].question = q

\* C17: the index changes only by +1 and only when the current question
\* has been submitted or is being skipped; the question that becomes
\* current has no selection and is unsubmitted; and a result is handed to
\* the Results screen only by a transition from the last question.
C17_IndexAdvancesByOneAfterOutcome ==
  [][/\ currentQuestionIndex' # currentQuestionIndex =>
          /\ currentQuestionIndex' = currentQuestionIndex + 1
          /\ TalliedIn(outcomes', currentQuestionIndex)
          /\ selectedAnswer' = NoAnswer
          /\ ~isAnswerSubmitted'
     /\ (navResults' # navResults
           \/ (screen' = "Results" /\ screen # "Results")) =>
          /\ currentQuestionIndex = Len(questions) - 1
          /\ currentQuestionIndex' = currentQuestionIndex
          /\ TalliedIn(outcomes', currentQuestionIndex)
          /\ screen' = "Results"
          /\ navResults' # NoResult]_vars

C19_EmptyListStartsNoSession ==
  (~isLoading /\ Len(questions) = 0) =>
    /\ lastEvent \notin {"select", "submit", "submit-rejected", "next", "skip"}
    /\ screen \in {"Quiz", "Back"}
    /\ navResults = NoResult
    /\ results = [correct |-> 0, incorrect |-> 0, skipped |-> 0]
    /\ currentQuestionIndex = 0
    /\ selectedAnswer = NoAnswer
    /\ ~isAnswerSubmitted

\* the empty list was loaded, time passed, and Go Back was pressed
C19_Witness ==
  /\ ~isLoading /\ Len(questions) = 0
  /\ now >= 1
  /\ lastEvent = "quit" /\ screen = "Back"

\* the identifiers of the questions submitted with a choice that is not
\* their correct answer
SubmittedWrongIds ==
  { questions[outcomes[j].question + 1].id :
      j \in { k \in 1..Len(outcomes) : outcomes[k].outcome = "incorrect" } }

\* the identifiers a sequence of questions' ids holds
IdsIn(ids) == { ids[k] : k \in 1..Len(ids) }

\* C20: the incorrectly-answered identifiers of a session's result are
\* exactly the identifiers of the questions submitted with a wrong choice:
\* no correctly answered and no skipped question is among them, whatever
\* the order of the outcomes.
C20_IncorrectIdsAreWrongSubmissions ==
  navResults # NoResult =>
    IdsIn(navResults.performance.incorrectQuestionIds) = SubmittedWrongIds

\* C27: when a session has completed, the list of recorded times has one
\* entry for each question of the session, whatever was submitted and
\* whatever was skipped.
C27_OneTimePerQuestion ==
  (screen = "Results" /\ navResults # NoResult) =>
    Len(timePerQuestion) = Len(questions)

\* C28: the average time per question of every result is a quotient by a
\* positive number of recorded times.
C28_AverageOverNonEmptyList ==
  navResults # NoResult =>
    navResults.results.averageTimePerQuestion.d > 0

(***************************************************************************)
(* Properties of the performance analysis                                  *)
(***************************************************************************)
Analyzed == analysisStep \in {"analyzed", "recommended", "predicted"}
Recommended == analysisStep \in {"recommended", "predicted"}
Predicted == analysisStep = "predicted"

RecordsOf(c) == {i \in 1..Len(performances) : performances[i].category = c}
CategoriesPresent == {performances[i].category : i \in 1..Len(performances)}

\* the rate r is correctAnswers / totalQuestions of record i (total > 0)
IsRateOf(r, i) ==
  /\ performances[i].totalQuestions > 0 /\ r.d > 0
  /\ r.n * performances[i].totalQuestions
       = performances[i].correctAnswers * r.d
\* the rate r is at most the rate of record i (total > 0)
AtMostRateOf(r, i) ==
  r.n * performances[i].totalQuestions
    <= performances[i].correctAnswers * r.d

\* C3: when every record has totalQuestions > 0, analyzePerformance maps
\* each category present to the minimum of correctAnswers/totalQuestions
\* over the category's records, in any order of the records.
C3_AnalyzeYieldsMinimum ==
  (Analyzed /\ \A i \in 1..Len(performances) :
                 performances[i].totalQuestions > 0) =>
    \A c \in CategoriesPresent :
      /\ MapHas(performanceByCategory, c)
      /\ \E i \in RecordsOf(c) : IsRateOf(MapGet(performanceByCategory, c), i)
      /\ \A i \in RecordsOf(c) :
           AtMostRateOf(MapGet(performanceByCategory, c), i)

\* C10: a record with totalQuestions = 0 never determines a reported
\* rate: every rate in the result is correctAnswers/totalQuestions of a
\* record of that category with totalQuestions > 0.
C10_ZeroTotalRecordsExcluded ==
  Analyzed =>
    \A k \in 1..Len(performanceByCategory) :
      \E i \in RecordsOf(performanceByCategory[k].category) :
        IsRateOf(performanceByCategory[k].rate, i)

RateOfRecommendation(k) ==
  MapGet(performanceByCategory, recommendations[k].category)

\* C4: the recommendations are ordered by ascending success rate, weakest
\* category first.
C4_RecommendationsAscending ==
  Recommended =>
    \A i, j \in 1..Len(recommendations) :
      i < j =>
        RateOfRecommendation(i).n * RateOfRecommendation(j).d
          <= RateOfRecommendation(j).n * RateOfRecommendation(i).d

\* C5: exactly one recommendation for each category of the mapping whose
\* rate is strictly below 0.70, none for a rate of 0.70 or more, and an
\* empty list for an empty mapping.
C5_OneRecommendationPerWeakCategory ==
  Recommended =>
    /\ \A k \in 1..Len(performanceByCategory) :
         LET e == performanceByCategory[k]
             n == Cardinality({i \in 1..Len(recommendations) :
                                 recommendations[i].category = e.category})
         IN  /\ (e.rate.d > 0 /\ 10 * e.rate.n < 7 * e.rate.d) => n = 1
             /\ (e.rate.d > 0 /\ 10 * e.rate.n >= 7 * e.rate.d) => n = 0
    /\ \A i \in 1..Len(recommendations) :
         MapHas(performanceByCategory, recommendations[i].category)
    /\ performanceByCategory = <<>> => recommendations = <<>>

C5_Witness ==
  /\ Recommended /\ Len(performanceByCategory) = 2
  /\ Len(recommendations) = 1
  /\ \E k \in 1..2 : /\ performanceByCategory[k].rate.n = 7
                     /\ performanceByCategory[k].rate.d = 10

InSection(cats) == {i \in 1..Len(performances) :
                      performances[i].category \in cats}
RECURSIVE SumOver(_, _)
SumOver(I, field) ==
  IF I = {} THEN 0
  ELSE LET i == CHOOSE x \in I : TRUE
       IN  performances[i][field] + SumOver(I \ {i}, field)
SectionCorrect(cats) == SumOver(InSection(cats), "correctAnswers")
SectionTotal(cats) == SumOver(InSection(cats), "totalQuestions")
\* score is 800 * c / t rounded to the nearest integer, halves up; 0 when
\* t is 0
IsRoundedScore(score, c, t) ==
  IF t = 0 THEN score = 0
  ELSE /\ 2 * t * score - t <= 2 * 800 * c
       /\ 2 * 800 * c < 2 * t * score + t

\* C9: each section score is round(sum correct / sum total * 800), 0 for
\* a section whose total is 0, and totalScore is the sum of the two;
\* 8/10 and 6/10 give 640, 480 and 1120.
C9_PredictedScores ==
  Predicted =>
    /\ IsRoundedScore(prediction.mathScore,
                      SectionCorrect(MathCategories),
                      SectionTotal(MathCategories))
    /\ IsRoundedScore(prediction.verbalScore,
                      SectionCorrect(VerbalCategories),
                      SectionTotal(VerbalCategories))
    /\ prediction.totalScore = prediction.mathScore + prediction.verbalScore
    /\ ( /\ SectionCorrect(MathCategories) = 8
         /\ SectionTotal(MathCategories) = 10
         /\ SectionCorrect(VerbalCategories) = 6
         /\ SectionTotal(VerbalCategories) = 10 )
       => prediction = [mathScore |-> 640, verbalScore |-> 480,
                        totalScore |-> 1120]

C9_Witness ==
  /\ Predicted
  /\ SectionTotal(MathCategories) = 10
  /\ SectionTotal(VerbalCategories) = 10
  /\ prediction = [mathScore |-> 640, verbalScore |-> 480,
                   totalScore |-> 1120]

(***************************************************************************)
(* Properties of question assembly                                         *)
(***************************************************************************)
\* C6: the list getQuestions returns never holds two questions with the
\* same identifier.
C6_ReturnedIdsDistinct ==
  \A i, j \in 1..Len(returned) :
    i # j => returned[i].id # returned[j].id


\* the stored questions, catalog then generated pool, that pass the filters
\* of a configuration
StoredMatching(config, pool) ==
  SelectSeq(mockQuestions \o pool, LAMBDA q : MatchesConfig(q, config))

\* C11: a finished getQuestions call has returned at most config.count
\* questions, whether or not questions were generated and however many
\* each generation request delivered.
C11_ReturnsAtMostCount ==
  call.pc = "done" => Len(returned) <= call.config.count

\* a call that generated questions and had more candidates than requested
C11_Witness ==
  /\ call.pc = "done" /\ call.config.useAI
  /\ call.config.difficulty = "Hard"
  /\ Len(StoredMatching(call.config, aiGeneratedQuestions))
       > call.config.count
  /\ Len(returned) = call.config.count
  /\ \A i \in 1..Len(returned) : returned[i].isAIGenerated

\* C12: a call with useAI false returns min(config.count, M) questions,
\* M being the number of stored questions (catalog and generated pool) that
\* pass the filters when the call is made, and leaves the generated pool as
\* it was.
C12_StoredOnlyReturnsMinCountM ==
  [][(call'.pc = "done" /\ ~call'.config.useAI) =>
       /\ Len(returned') =
            Min(call'.config.count,
                Len(StoredMatching(call'.config, aiGeneratedQuestions)))
       /\ aiGeneratedQuestions' = aiGeneratedQuestions]_vars

\* a request for two questions answered with the single stored match, a
\* question of the generated pool
C12_Witness ==
  /\ call.pc = "done" /\ ~call.config.useAI
  /\ call.config.count = 2
  /\ Len(returned) = 1
  /\ returned[1].isAIGenerated
  /\ Len(StoredMatching(call.config, aiGeneratedQuestions)) = 1


\* 0 <= correctAnswer < options.length
WellFormed(q) == 0 <= q.correctAnswer /\ q.correctAnswer < q.options

\* C21: every question of the catalog, of the generated pool and of a
\* returned list has its correct answer among its options; a completion
\* whose objects do not is not stored.
C21_StoredQuestionsWellFormed ==
  \A q \in IdsIn(mockQuestions \o aiGeneratedQuestions \o returned) :
    WellFormed(q) /\ q.options = NumOptions

\* a getQuestions step in which one generateAIQuestions call resolved
BatchStep == call.pc = "generating" /\ call' # call

\* the questions that step appended to the pool
BatchAppended ==
  SubSeq(aiGeneratedQuestions', Len(aiGeneratedQuestions) + 1,
         Len(aiGeneratedQuestions'))

\* the request that step answered
BatchRequest == call'.requests[Len(call'.requests)]

\* b is what the fallback path yields for the request r
IsPlaceholderBatch(b, r) ==
  /\ Len(b) = r.count
  /\ \A i \in 1..Len(b) :
       /\ b[i].id[1] = "gen"
       /\ b[i].category = r.category
       /\ b[i].difficulty = r.difficulty
       /\ b[i].isAIGenerated

\* C22: a generation request that fails (no API keys, failed search,
\* failed post, unparsable or malformed completion) resolves with exactly
\* the requested number of placeholder questions of the requested category
\* and difficulty, tagged as generated.
C22_FailuresYieldPlaceholders ==
  [][BatchStep =>
       ((\/ call'.failure # "none"
         \/ \E i \in 1..Len(BatchAppended) :
              ~(WellFormed(BatchAppended[i])
                  /\ BatchAppended[i].options = NumOptions))
          => IsPlaceholderBatch(BatchAppended, BatchRequest))]_vars

\* C26: getQuestions generates exactly when useAI is set and fewer than
\* config.count stored questions match; the deficit is fixed then; each
\* request is for the next requested (or default) category, the requested
\* difficulty or Medium, and ceil(deficit / number of categories)
\* questions; its batch goes to the pool and to the working set; the call
\* ends with the request for the last category.
C26_OneRequestPerCategory ==
  [][/\ (call.pc = "idle" /\ call' # call) =>
          LET config == call'.config
              M == Len(StoredMatching(config, aiGeneratedQuestions))
          IN  /\ call'.pc = "generating" <=> (config.useAI /\ M < config.count)
              /\ call'.pc = "generating" =>
                   call'.neededCount = config.count - M
              /\ call'.requests = <<>>
              /\ aiGeneratedQuestions' = aiGeneratedQuestions
     /\ BatchStep =>
          LET config == call.config
              cats == IF config.categories = <<>>
                        THEN <<"Algebra", "Reading Comprehension",
                               "Grammar", "Geometry">>
                        ELSE config.categories
              n == Len(call.requests) + 1
              r == BatchRequest
          IN  /\ Len(call'.requests) = n
              /\ SubSeq(call'.requests, 1, n - 1) = call.requests
              /\ r.category = cats[n]
              /\ r.difficulty = IF config.difficulty = NoDifficulty
                                  THEN "Medium" ELSE config.difficulty
              /\ r.count * Len(cats) >= call.neededCount
              /\ (r.count - 1) * Len(cats) < call.neededCount
              /\ aiGeneratedQuestions' = aiGeneratedQuestions \o BatchAppended
              /\ call'.pc = (IF n = Len(cats) THEN "done" ELSE "generating")
              /\ call'.pc = "generating" =>
                   /\ call'.neededCount = call.neededCount
                   /\ call'.allQuestions = call.allQuestions \o BatchAppended]_vars

\* a call without categories that ended after four requests for a deficit
\* of two, one question each
C26_Witness ==
  /\ call.pc = "done" /\ call.config.categories = <<>>
  /\ call.config.count = 2
  /\ Len(call.requests) = 4
  /\ \A i \in 1..4 : call.requests[i].count = 1
  /\ call.requests[4].category = "Geometry"
  /\ call.requests[1].difficulty = "Hard"


\* s is an initial part of t
IsPrefix(s, t) == Len(s) <= Len(t) /\ SubSeq(t, 1, Len(s)) = s

\* C23: with a getQuestions and an updateQuestionBank call in flight and
\* interleaving at their awaits, every step that does not clear the pool
\* leaves all questions appended so far in it, in place: no append
\* removes or overwrites what another call appended.
C23_AppendsNeverLost ==
  [][\/ IsPrefix(aiGeneratedQuestions, aiGeneratedQuestions')
     \/ /\ aiGeneratedQuestions' = <<>>
        /\ UNCHANGED <<call, update, returned>>]_vars

\* the batch of getQuestions was appended between two batches of
\* updateQuestionBank, whose first batch is still in the pool
C23_Witness ==
  /\ call.pc = "done" /\ Len(call.requests) = 1
  /\ update.pc = "generating" /\ update.next = 2
  /\ Len(aiGeneratedQuestions) = 2
  /\ aiGeneratedQuestions[1].difficulty = "Medium"
  /\ aiGeneratedQuestions[2].difficulty = "Hard"

\* C25: a step that leaves fewer questions in the pool empties it and leaves
\* the catalog as it is: every catalog question is found by its id, no
\* question that was in the pool is, and a getQuestions call made then
\* draws on the catalog alone.
C25_ClearEmptiesPoolOnly ==
  [][Len(aiGeneratedQuestions') < Len(aiGeneratedQuestions) =>
       /\ aiGeneratedQuestions' = <<>>
       /\ \A i \in 1..Len(mockQuestions) :
            getQuestionById(aiGeneratedQuestions', mockQuestions[i].id)
              = mockQuestions[i]
       /\ \A i \in 1..Len(aiGeneratedQuestions) :
            getQuestionById(aiGeneratedQuestions',
                            aiGeneratedQuestions[i].id) = Undefined
       /\ \A p \in QuizParams :
            StoredMatching(QuizConfig(p), aiGeneratedQuestions')
              = SelectSeq(mockQuestions,
                          LAMBDA q : MatchesConfig(q, QuizConfig(p)))]_vars

\* the pool is empty while a finished call still holds a generated
\* question it took from it
C25_Witness ==
  /\ aiGeneratedQuestions = <<>>
  /\ call.pc = "done"
  /\ \E i \in 1..Len(returned) :
       /\ returned[i].isAIGenerated
       /\ getQuestionById(aiGeneratedQuestions, returned[i].id) = Undefined


\* a step of the getQuestions call made by a quiz screen that has been left
LateStep == screen = "Back" /\ call' # call /\ call.pc # "idle"

\* C24 (as stated): once the quiz has been left while getQuestions waits
\* for generated questions, the response that arrives changes neither the
\* session cells (question list, timers, loading flag) nor the pool.
C24_LateResponseIgnored ==
  [][LateStep =>
       /\ UNCHANGED <<questions, isLoading, quizStartTime, questionStartTime>>
       /\ aiGeneratedQuestions' = aiGeneratedQuestions]_vars

\* C24 (amended): once the quiz has been left while getQuestions waits for
\* generated questions, the response that arrives changes none of the
\* session cells; its questions are appended to the pool all the same.
C24_LateResponseReachesPoolOnly ==
  [][LateStep =>
       /\ UNCHANGED <<questions, isLoading, quizStartTime, questionStartTime>>
       /\ call.pc = "generating" =>
            aiGeneratedQuestions' = aiGeneratedQuestions \o BatchAppended]_vars

\* the screen was left during the only request of the call; the generated
\* question is in the pool and in the returned list, the cells are as
\* constructed
C24_Witness ==
  /\ screen = "Back" /\ call.pc = "done"
  /\ Len(call.requests) = 1
  /\ Len(aiGeneratedQuestions) = 1
  /\ returned = aiGeneratedQuestions
  /\ isLoading /\ questions = <<>>


(***************************************************************************)
(* Properties of the user record                                           *)
(***************************************************************************)
\* C30: the progress of a logged-in user counts the updateProgress calls
\* made for that user and sums their arguments, with totalCorrect at most
\* totalAttempted and both scores within 0..100; a call made while no
\* user is logged in changes neither the user nor the progress.
C30_ProgressSumsTheCalls ==
  [][/\ user' # NoUser =>
          /\ UserProgress'.completedQuizzes = calls'.n
          /\ UserProgress'.totalCorrect = calls'.correct
          /\ UserProgress'.totalAttempted = calls'.attempted
          /\ UserProgress'.totalCorrect <= UserProgress'.totalAttempted
          /\ UserProgress'.mathScore \in 0..100
          /\ UserProgress'.verbalScore \in 0..100
     /\ (progressCall' # progressCall /\ user = NoUser) =>
          UNCHANGED <<user, initialUserState>>]_vars


\* C29: when the analysis of the Results screen finishes for a logged-in
\* user and the success rate of the quiz is below 0.70, the stored weak
\* areas of the user include the category of the quiz; they are left as
\* they were only if no category was detected as weak.
C29_WeakAreasStored ==
  [][(/\ user # NoUser
      /\ resultsScreen # NoScreen /\ resultsScreen' # NoScreen
      /\ resultsScreen.isAnalyzing /\ ~resultsScreen'.isAnalyzing) =>
       LET performance == resultsScreen.performance
           rate == Quot(performance.correctAnswers,
                        performance.totalQuestions)
       IN  /\ IsWeak(rate) =>
                MapHas(user'.weakAreas, performance.category)
           /\ user'.weakAreas = user.weakAreas => ~IsWeak(rate)]_vars


=============================================================================
